---- MODULE Spec2Model ----
(***************************************************************************)
(* remove_embeddings.py: load insurance_knowledge.json, delete the key     *)
(* 'embedding' from every element of the loaded list, dump the list back   *)
(* to the same path with indent=2.                                         *)
(*                                                                         *)
(* A file is a sequence of lexical tokens; a loaded value is a tagged      *)
(* pair.  A string is a sequence of symbols, the symbol "embedding"        *)
(* standing for that nine-letter word and every other symbol for one       *)
(* character.                                                              *)
(***************************************************************************)
EXTENDS Integers, Sequences, FiniteSets, TLC

(***************************************************************************)
(* Python values as json.load builds them.                                 *)
(***************************************************************************)
None == <<"null", "null">>
Num(n) == <<"num", n>>
Str(s) == <<"str", s>>
List(xs) == <<"arr", xs>>
\* a dict keeps insertion order: a sequence of <<key, value>>, keys distinct
Dict(ms) == <<"obj", ms>>

IsNone(v) == v[1] = "null"
IsNum(v) == v[1] = "num"
IsStr(v) == v[1] = "str"
IsList(v) == v[1] = "arr"
IsDict(v) == v[1] = "obj"

EmbeddingKey == <<"embedding">>

Keys(ms) == {ms[p][1] : p \in 1..Len(ms)}
KeyIndex(ms, k) == CHOOSE p \in 1..Len(ms) : ms[p][1] = k

(***************************************************************************)
(* Lexical tokens of a JSON text.  <<"nl", k>> is a line break followed by *)
(* k spaces, <<"sp", 1>> the blank after a colon.                          *)
(***************************************************************************)
LBracket == <<"p", "[">>
RBracket == <<"p", "]">>
LBrace == <<"p", "{">>
RBrace == <<"p", "}">>
Comma == <<"p", ",">>
Colon == <<"p", ":">>
NumberTok(n) == <<"number", n>>
StringTok(s) == <<"string", s>>
NullTok == <<"literal", "null">>
IsWhitespaceBlankOnly(tok) == tok[1] = "sp"
IsWhitespace(tok) == tok[1] \in {"nl", "sp"}

(***************************************************************************)
(* json.dump(data, f, ensure_ascii=False, indent=2): the chunks of         *)
(* JSONEncoder.iterencode, token by token.                                 *)
(***************************************************************************)
Indent == 2
NewlineIndent(level) == <<"nl", Indent * level>>
ItemSeparatorNoComma(level) == <<NewlineIndent(level)>>
ItemSeparator(level) == <<Comma, NewlineIndent(level)>>
KeySeparator == <<Colon, <<"sp", 1>>>>

RECURSIVE Encode(_, _)
RECURSIVE EncodeItems(_, _, _)
RECURSIVE EncodeMembers(_, _, _)
Encode(v, level) ==
    CASE IsNone(v) -> <<NullTok>>
      [] IsNum(v) -> <<NumberTok(v[2])>>
      [] IsStr(v) -> <<StringTok(v[2])>>
      [] IsList(v) ->
           IF v[2] = <<>> THEN <<LBracket, RBracket>>
           ELSE <<LBracket, NewlineIndent(level + 1)>>
                \o EncodeItems(v[2], 1, level + 1)
                \o <<NewlineIndent(level), RBracket>>
      [] IsDict(v) ->
           IF v[2] = <<>> THEN <<LBrace, RBrace>>
           ELSE <<LBrace, NewlineIndent(level + 1)>>
                \o EncodeMembers(v[2], 1, level + 1)
                \o <<NewlineIndent(level), RBrace>>

EncodeItems(xs, p, level) ==
    IF p > Len(xs) THEN <<>>
    ELSE (IF p = 1 THEN <<>> ELSE ItemSeparator(level))
         \o Encode(xs[p], level)
         \o EncodeItems(xs, p + 1, level)

EncodeMembers(ms, p, level) ==
    IF p > Len(ms) THEN <<>>
    ELSE (IF p = 1 THEN <<>> ELSE ItemSeparator(level))
         \o <<StringTok(ms[p][1])>> \o KeySeparator
         \o Encode(ms[p][2], level)
         \o EncodeMembers(ms, p + 1, level)

Dumps(v) == Encode(v, 0)

(***************************************************************************)
(* json.load(f): whitespace is skipped, an object keeps the first position *)
(* and the last value of a repeated key, text after the value is an error. *)
(***************************************************************************)
ParseFailure == [ok |-> FALSE, val |-> None, next |-> 0]
Parsed(v, n) == [ok |-> TRUE, val |-> v, next |-> n]

RECURSIVE SkipWs(_, _)
SkipWs(t, p) ==
    IF p <= Len(t) /\ IsWhitespace(t[p]) THEN SkipWs(t, p + 1) ELSE p

\* d[k] = v on an insertion-ordered dict
DictSet(ms, k, v) ==
    IF k \in Keys(ms)
    THEN [ms EXCEPT ![KeyIndex(ms, k)] = <<k, v>>]
    ELSE Append(ms, <<k, v>>)

RECURSIVE ParseValue(_, _)
RECURSIVE ParseItems(_, _, _)
RECURSIVE ParseMembers(_, _, _)
ParseValue(t, p0) ==
    LET p == SkipWs(t, p0) IN
    IF p > Len(t) THEN ParseFailure
    ELSE CASE t[p][1] = "number" -> Parsed(Num(t[p][2]), p + 1)
           [] t[p][1] = "string" -> Parsed(Str(t[p][2]), p + 1)
           [] t[p] = NullTok -> Parsed(None, p + 1)
           [] t[p] = LBracket ->
                LET q == SkipWs(t, p + 1) IN
                IF q <= Len(t) /\ t[q] = RBracket
                THEN Parsed(List(<<>>), q + 1)
                ELSE ParseItems(t, p + 1, <<>>)
           [] t[p] = LBrace ->
                LET q == SkipWs(t, p + 1) IN
                IF q <= Len(t) /\ t[q] = RBrace
                THEN Parsed(Dict(<<>>), q + 1)
                ELSE ParseMembers(t, p + 1, <<>>)
           [] OTHER -> ParseFailure

ParseItems(t, p, acc) ==
    LET r == ParseValue(t, p) IN
    IF ~r.ok THEN ParseFailure
    ELSE LET q == SkipWs(t, r.next) IN
         IF q > Len(t) THEN ParseFailure
         ELSE IF t[q] = Comma THEN ParseItems(t, q + 1, Append(acc, r.val))
         ELSE IF t[q] = RBracket THEN Parsed(List(Append(acc, r.val)), q + 1)
         ELSE ParseFailure

ParseMembers(t, p0, acc) ==
    LET p == SkipWs(t, p0) IN
    IF p > Len(t) \/ t[p][1] # "string" THEN ParseFailure
    ELSE LET c == SkipWs(t, p + 1) IN
         IF c > Len(t) \/ t[c] # Colon THEN ParseFailure
         ELSE LET r == ParseValue(t, c + 1) IN
              IF ~r.ok THEN ParseFailure
              ELSE LET q == SkipWs(t, r.next) IN
                   IF q > Len(t) THEN ParseFailure
                   ELSE IF t[q] = Comma
                        THEN ParseMembers(t, q + 1, DictSet(acc, t[p][2], r.val))
                   ELSE IF t[q] = RBrace
                        THEN Parsed(Dict(DictSet(acc, t[p][2], r.val)), q + 1)
                   ELSE ParseFailure

Loads(t) ==
    LET r == ParseValue(t, 1) IN
    IF r.ok /\ SkipWs(t, r.next) > Len(t) THEN r ELSE ParseFailure

(***************************************************************************)
(* The loop body, lines 9-10, on one element qa.  Each operator returns    *)
(* [err, val]: err is a TypeError raised by the operation.                 *)
(***************************************************************************)
IsSubstring(needle, s) ==
    \E p \in 1..(Len(s) - Len(needle) + 1) :
        SubSeq(s, p, p + Len(needle) - 1) = needle

ContainsTruthy(qa) ==
    CASE IsDict(qa) -> [err |-> FALSE,
                        val |-> /\ EmbeddingKey \in Keys(qa[2])
                                /\ qa[2][KeyIndex(qa[2], EmbeddingKey)][2] # None]
      [] IsList(qa) -> [err |-> FALSE,
                        val |-> \E p \in 1..Len(qa[2]) : qa[2][p] = Str(EmbeddingKey)]
      [] IsStr(qa) -> [err |-> FALSE, val |-> IsSubstring(EmbeddingKey, qa[2])]
      [] OTHER -> [err |-> TRUE, val |-> FALSE]
\* 'embedding' in qa
Contains(qa) ==
    CASE IsDict(qa) -> [err |-> FALSE, val |-> EmbeddingKey \in Keys(qa[2])]
      [] IsList(qa) -> [err |-> FALSE,
                        val |-> \E p \in 1..Len(qa[2]) : qa[2][p] = Str(EmbeddingKey)]
      [] IsStr(qa) -> [err |-> FALSE, val |-> IsSubstring(EmbeddingKey, qa[2])]
      [] OTHER -> [err |-> TRUE, val |-> FALSE]

DelKeyFirst(ms, k) == Tail(ms)
DelKeyFrom(ms, k) == SubSeq(ms, 1, KeyIndex(ms, k) - 1)
DelKey(ms, k) ==
    LET p == KeyIndex(ms, k) IN SubSeq(ms, 1, p - 1) \o SubSeq(ms, p + 1, Len(ms))

\* del qa['embedding']
DelItem(qa) ==
    IF IsDict(qa)
    THEN [err |-> FALSE, val |-> Dict(DelKey(qa[2], EmbeddingKey))]
    ELSE [err |-> TRUE, val |-> qa]

StripElemLenient(qa) ==
    IF IsDict(qa) /\ EmbeddingKey \in Keys(qa[2]) THEN DelItem(qa)
    ELSE [err |-> FALSE, val |-> qa]
StripElem(qa) ==
    LET c == Contains(qa) IN
    IF c.err THEN [err |-> TRUE, val |-> qa]
    ELSE IF c.val THEN DelItem(qa)
    ELSE [err |-> FALSE, val |-> qa]

(***************************************************************************)
(* for qa in data (line 8): a list yields its elements, a dict its keys, a *)
(* string its characters; any other value is not iterable.                 *)
(***************************************************************************)
Iterable(d) == IsList(d) \/ IsDict(d) \/ IsStr(d)

Spell(sym) ==
    IF sym = "embedding"
    THEN <<"e", "m", "b", "e", "d", "d", "i", "n", "g">>
    ELSE <<sym>>
RECURSIVE Chars(_)
Chars(s) == IF s = <<>> THEN <<>> ELSE Spell(Head(s)) \o Chars(Tail(s))

Items(d) ==
    CASE IsList(d) -> d[2]
      [] IsDict(d) -> [p \in 1..Len(d[2]) |-> Str(d[2][p][1])]
      [] IsStr(d) -> [p \in 1..Len(Chars(d[2])) |-> Str(<<Chars(d[2])[p]>>)]
      [] OTHER -> <<>>

\* qa is data[p] itself: the deletion shows in the list
SetItemDrop(xs, p, v) == SubSeq(xs, 1, p - 1) \o SubSeq(xs, p + 1, Len(xs))
SetItem(xs, p, v) == [xs EXCEPT ![p] = v]

(***************************************************************************)
(* The contents insurance_knowledge.json may have when the script starts.  *)
(***************************************************************************)
MaxLen == 2
MaxSpace == 2

\* JSON text without whitespace; an object is written as its member list,
\* which may repeat a key
RECURSIVE Text(_)
RECURSIVE TextItems(_, _)
RECURSIVE TextMembers(_, _)
Text(v) ==
    CASE IsNone(v) -> <<NullTok>>
      [] IsNum(v) -> <<NumberTok(v[2])>>
      [] IsStr(v) -> <<StringTok(v[2])>>
      [] IsList(v) -> <<LBracket>> \o TextItems(v[2], 1) \o <<RBracket>>
      [] IsDict(v) -> <<LBrace>> \o TextMembers(v[2], 1) \o <<RBrace>>
TextItems(xs, p) ==
    IF p > Len(xs) THEN <<>>
    ELSE (IF p = 1 THEN <<>> ELSE <<Comma>>) \o Text(xs[p]) \o TextItems(xs, p + 1)
TextMembers(ms, p) ==
    IF p > Len(ms) THEN <<>>
    ELSE (IF p = 1 THEN <<>> ELSE <<Comma>>)
         \o <<StringTok(ms[p][1]), Colon>> \o Text(ms[p][2])
         \o TextMembers(ms, p + 1)

\* the same text with a line break after each comma and a blank after each colon
RECURSIVE Spaced(_)
Spaced(t) ==
    IF t = <<>> THEN <<>>
    ELSE <<Head(t)>>
         \o (IF Head(t) = Comma THEN <<<<"nl", 0>>>>
             ELSE IF Head(t) = Colon THEN <<<<"sp", 1>>>>
             ELSE <<>>)
         \o Spaced(Tail(t))

Question == <<<<"q">>, Str(<<"A">>)>>
EmbeddingList == <<EmbeddingKey, List(<<Num(1)>>)>>
EmbeddingNull == <<EmbeddingKey, None>>
Members == {Question, EmbeddingList, EmbeddingNull}

\* objects over the keys "q" and "embedding", in either order
PlainObjects ==
    {Dict(ms) : ms \in {m \in UNION {[1..n -> Members] : n \in 0..Cardinality(Keys(<<Question, EmbeddingList>>))} :
                           Cardinality(Keys(m)) = Len(m)}}
\* objects whose text repeats a key
RepeatedKeyObjects ==
    {Dict(<<EmbeddingList, EmbeddingNull>>), Dict(<<Question, EmbeddingList, Question>>)}
Objects == PlainObjects \cup RepeatedKeyObjects

NonMappings ==
    {Num(1), None, Str(<<"A">>), Str(<<"x", "embedding">>),
     List(<<Num(1)>>), List(<<Str(EmbeddingKey)>>)}

Elements == Objects \cup NonMappings
Arrays == {List(xs) : xs \in UNION {[1..n -> Elements] : n \in 0..MaxLen}}
TopLevelOthers ==
    {Num(1), None, Str(<<"embedding">>), Dict(<<Question>>), Dict(<<Question, EmbeddingList>>)}

WellFormedTexts ==
    {Text(v) : v \in Arrays \cup TopLevelOthers}
    \cup {Spaced(Text(v)) : v \in Arrays \cup TopLevelOthers}
\* a file cut short, or with text after the value
MalformedTexts ==
    {SubSeq(Text(List(<<e>>)), 1, Len(Text(List(<<e>>))) - 1) : e \in Elements}
    \cup {Text(List(<<e>>)) \o <<RBracket>> : e \in Objects}
    \cup {<<>>}
InputTexts == WellFormedTexts \cup MalformedTexts

\* what the file system does to this process: nothing, refuse the read,
\* refuse the write, or run out of room after `space` tokens
Faults == {"none", "unreadable", "unwritable", "nospace"}

(***************************************************************************)
(* State.                                                                  *)
(***************************************************************************)
VARIABLES
    file,       \* content of insurance_knowledge.json
    fault,      \* the file system's behaviour towards this process
    space,      \* tokens the device can take when fault = "nospace"
    pc,         \* "load", "strip", "write", "done": where the script is
    err,        \* "none", or the exception that ended the run at pc
    data,       \* the variable data
    i,          \* elements the for loop has gone through
    wopened,    \* the file has been opened with mode 'w' in this run
    emitted,    \* chunks the encoder has produced in this run
    run,        \* "first", or "second" when run again after a success
    orig,       \* content of the file when this run started
    loaded      \* the value json.load returned in this run

vars == <<file, fault, space, pc, err, data, i, wopened, emitted, run, orig, loaded>>

Init ==
    /\ file \in InputTexts
    /\ fault \in Faults
    /\ space \in (IF fault = "nospace" THEN 0..MaxSpace ELSE {0})
    /\ pc = "load"
    /\ err = "none"
    /\ data = None
    /\ i = 0
    /\ wopened = FALSE
    /\ emitted = 0
    /\ run = "first"
    /\ orig = file
    /\ loaded = None

Running(stage) == pc = stage /\ err = "none"

\* line 4: open(..., 'r') raises
OpenForReadFails ==
    /\ Running("load")
    /\ fault = "unreadable"
    /\ err' = "FileAccessError"
    /\ UNCHANGED <<file, fault, space, pc, data, i, wopened, emitted, run, orig, loaded>>

\* line 5: json.load raises JSONDecodeError
ParseFailsTruncating ==
    /\ Running("load")
    /\ fault # "unreadable"
    /\ ~Loads(file).ok
    /\ err' = "ParseError"
    /\ file' = <<>>
    /\ UNCHANGED <<fault, space, pc, data, i, wopened, emitted, run, orig, loaded>>
ParseFails ==
    /\ Running("load")
    /\ fault # "unreadable"
    /\ ~Loads(file).ok
    /\ err' = "ParseError"
    /\ UNCHANGED <<file, fault, space, pc, data, i, wopened, emitted, run, orig, loaded>>

\* lines 4-5: data = json.load(f)
Load ==
    /\ Running("load")
    /\ fault # "unreadable"
    /\ Loads(file).ok
    /\ data' = Loads(file).val
    /\ loaded' = Loads(file).val
    /\ pc' = "strip"
    /\ i' = 0
    /\ UNCHANGED <<file, fault, space, err, wopened, emitted, run, orig>>

\* line 8: the loop has gone through every element
LoopDoneEarly == i >= 1 \/ i = Len(Items(data))
LoopDone == i = Len(Items(data))

\* lines 8-10: one iteration
StripRecord ==
    /\ Running("strip")
    /\ Iterable(data)
    /\ ~LoopDone
    /\ LET r == StripElem(Items(data)[i + 1]) IN
        /\ ~r.err
        /\ data' = IF IsList(data) THEN List(SetItem(data[2], i + 1, r.val)) ELSE data
    /\ i' = i + 1
    /\ UNCHANGED <<file, fault, space, pc, err, wopened, emitted, run, orig, loaded>>

\* lines 8-10: iter(data), the membership test or the deletion raises TypeError
StripTypeError ==
    /\ Running("strip")
    /\ \/ ~Iterable(data)
       \/ ~LoopDone /\ StripElem(Items(data)[i + 1]).err
    /\ err' = "TypeError"
    /\ UNCHANGED <<file, fault, space, pc, data, i, wopened, emitted, run, orig, loaded>>

\* line 13: open(..., 'w') truncates the file
OpenForWriteKeeping ==
    /\ Running("strip")
    /\ Iterable(data)
    /\ LoopDone
    /\ fault # "unwritable"
    /\ pc' = "write"
    /\ wopened' = TRUE
    /\ UNCHANGED <<file, fault, space, err, data, i, emitted, run, orig, loaded>>
OpenForWrite ==
    /\ Running("strip")
    /\ Iterable(data)
    /\ LoopDone
    /\ fault # "unwritable"
    /\ pc' = "write"
    /\ file' = <<>>
    /\ wopened' = TRUE
    /\ UNCHANGED <<fault, space, err, data, i, emitted, run, orig, loaded>>

\* line 13: open(..., 'w') raises
OpenForWriteFails ==
    /\ Running("strip")
    /\ Iterable(data)
    /\ LoopDone
    /\ fault = "unwritable"
    /\ pc' = "write"
    /\ err' = "FileAccessError"
    /\ UNCHANGED <<file, fault, space, data, i, wopened, emitted, run, orig, loaded>>

HasRoom == fault = "nospace" => Len(file) < space

\* line 14: json.dump writes the encoder's next chunk
WriteChunk ==
    /\ Running("write")
    /\ emitted < Len(Dumps(data))
    /\ HasRoom
    /\ file' = Append(file, Dumps(data)[emitted + 1])
    /\ emitted' = emitted + 1
    /\ UNCHANGED <<fault, space, pc, err, data, i, wopened, run, orig, loaded>>

\* line 14: the write of the next chunk raises OSError
WriteFails ==
    /\ Running("write")
    /\ emitted < Len(Dumps(data))
    /\ ~HasRoom
    /\ emitted' = emitted + 1
    /\ err' = "OSError"
    /\ UNCHANGED <<file, fault, space, pc, data, i, wopened, run, orig, loaded>>

\* line 14: json.dump returns and the with block closes the file
Close ==
    /\ Running("write")
    /\ emitted = Len(Dumps(data))
    /\ pc' = "done"
    /\ UNCHANGED <<file, fault, space, err, data, i, wopened, emitted, run, orig, loaded>>

\* the script is started again on the file a successful run left
RunAgain ==
    /\ Running("done")
    /\ run = "first"
    /\ run' = "second"
    /\ pc' = "load"
    /\ orig' = file
    /\ data' = None
    /\ loaded' = None
    /\ i' = 0
    /\ wopened' = FALSE
    /\ emitted' = 0
    /\ UNCHANGED <<file, fault, space, err>>

Next ==
    \/ OpenForReadFails
    \/ ParseFails
    \/ Load
    \/ StripRecord
    \/ StripTypeError
    \/ OpenForWrite
    \/ OpenForWriteFails
    \/ WriteChunk
    \/ WriteFails
    \/ Close
    \/ RunAgain

Spec == Init /\ [][Next]_vars

(***************************************************************************)
(* The loop of lines 8-10 as a function of a list.                         *)
(***************************************************************************)
RECURSIVE StripFrom(_, _)
StripFrom(xs, p) ==
    IF p > Len(xs) THEN xs
    ELSE StripFrom(SetItem(xs, p, StripElem(xs[p]).val), p + 1)

(***************************************************************************)
(* Properties.                                                             *)
(***************************************************************************)
IsArrayOfObjects(v) == IsList(v) /\ \A p \in 1..Len(v[2]) : IsDict(v[2][p])
Stripped == pc \in {"write", "done"} \/ (pc = "strip" /\ i = Len(Items(data)))
WithoutEmbedding(ms) == SelectSeq(ms, LAMBDA m : m[1] # EmbeddingKey)
IsPrefix(s, t) == Len(s) <= Len(t) /\ s = SubSeq(t, 1, Len(s))

\* C1: when a run on a file holding an array of objects completes, the file
\* parses to an array of objects none of which has the key "embedding",
\* whatever value the key had.
C1_NoEmbeddingLeft ==
    (pc = "done" /\ IsArrayOfObjects(Loads(orig).val)) =>
        LET r == Loads(file) IN
        /\ r.ok
        /\ IsArrayOfObjects(r.val)
        /\ \A p \in 1..Len(r.val[2]) : EmbeddingKey \notin Keys(r.val[2][p][2])

C1_Witness ==
    /\ pc = "done"
    /\ run = "first"
    /\ loaded = List(<<Dict(<<Question, EmbeddingList>>), Dict(<<EmbeddingNull>>)>>)

\* C2: at every point of the stripping stage and after it, the document has
\* as many records as the loaded one and its p-th record is made of members
\* of the p-th loaded record, with every key other than "embedding" kept.
C2_LengthAndOrder ==
    (pc # "load" /\ IsArrayOfObjects(loaded)) =>
        /\ IsList(data)
        /\ Len(data[2]) = Len(loaded[2])
        /\ \A p \in 1..Len(loaded[2]) :
              /\ IsDict(data[2][p])
              /\ \A q \in 1..Len(data[2][p][2]) :
                    \E q0 \in 1..Len(loaded[2][p][2]) :
                        data[2][p][2][q] = loaded[2][p][2][q0]
              /\ Keys(loaded[2][p][2]) \ {EmbeddingKey} \subseteq Keys(data[2][p][2])

C2_Witness ==
    /\ Stripped
    /\ loaded = List(<<Dict(<<EmbeddingList>>), Dict(<<Question>>)>>)
    /\ data = List(<<Dict(<<>>), Dict(<<Question>>)>>)

\* C3: a record the loop has gone through equals the loaded record with the
\* member "embedding" taken out and every other member in place (so a record
\* without "embedding" is unchanged); a record it has not reached is unchanged.
C3_OnlyEmbeddingChanges ==
    (pc # "load" /\ IsArrayOfObjects(loaded)) =>
        /\ IsList(data)
        /\ Len(data[2]) = Len(loaded[2])
        /\ \A p \in 1..Len(loaded[2]) :
              IF p <= i
              THEN /\ data[2][p] = Dict(WithoutEmbedding(loaded[2][p][2]))
                   /\ EmbeddingKey \notin Keys(loaded[2][p][2]) => data[2][p] = loaded[2][p]
              ELSE data[2][p] = loaded[2][p]

C3_Witness ==
    /\ Stripped
    /\ loaded = List(<<Dict(<<EmbeddingList, Question>>), Dict(<<Question>>)>>)
    /\ data = List(<<Dict(<<Question>>), Dict(<<Question>>)>>)

\* C4: stripping a stripped document changes nothing: once the loop has gone
\* through the list, running the loop over the result raises nothing and
\* gives the same list.
C4_StripIdempotent ==
    (Stripped /\ IsList(data)) =>
        /\ \A p \in 1..Len(data[2]) : ~StripElem(data[2][p]).err
        /\ StripFrom(data[2], 1) = data[2]

C4_Witness ==
    /\ Stripped
    /\ loaded = List(<<Dict(<<Question, EmbeddingList>>), Dict(<<EmbeddingNull>>)>>)
    /\ data = List(<<Dict(<<Question>>), Dict(<<>>)>>)

\* C5: parsing the text the writer has put in the file gives exactly the
\* stripped document; for an array of objects that is the loaded document
\* less its "embedding" members.
C5_RoundTrip ==
    pc = "done" =>
        /\ Loads(file).ok
        /\ Loads(file).val = data
        /\ IsArrayOfObjects(loaded) =>
              /\ Len(Loads(file).val[2]) = Len(loaded[2])
              /\ \A p \in 1..Len(loaded[2]) :
                    Loads(file).val[2][p] = Dict(WithoutEmbedding(loaded[2][p][2]))

C5_Witness ==
    /\ pc = "done"
    /\ run = "first"
    /\ loaded = List(<<Dict(<<Question, EmbeddingList>>), Dict(<<Question>>)>>)
    /\ file = Dumps(List(<<Dict(<<Question>>), Dict(<<Question>>)>>))

\* C6: a run that has failed in the load or the strip stage has the file as
\* it was when the run started and has never opened it for writing.
C6_EarlyFailureLeavesFile ==
    (err # "none" /\ pc \in {"load", "strip"}) =>
        /\ err \in {"FileAccessError", "ParseError", "TypeError"}
        /\ file = orig
        /\ ~wopened

C6_Witness ==
    /\ err = "TypeError"
    /\ pc = "strip"
    /\ i = 1
    /\ data # loaded
    /\ file = orig

\* an element on which the membership test or the deletion raises
Rejected(e) ==
    \/ IsNum(e)
    \/ IsNone(e)
    \/ IsStr(e) /\ IsSubstring(EmbeddingKey, e[2])
    \/ IsList(e) /\ \E p \in 1..Len(e[2]) : e[2][p] = Str(EmbeddingKey)
FirstRejected(xs) ==
    CHOOSE p \in 1..Len(xs) : Rejected(xs[p]) /\ \A q \in 1..(p - 1) : ~Rejected(xs[q])

FirstNonMapping(xs) ==
    CHOOSE p \in 1..Len(xs) : ~IsDict(xs[p]) /\ \A q \in 1..(p - 1) : IsDict(xs[q])

C8_Original ==
    /\ i > 0 => pc # "load"
    /\ emitted > 0 => i = Len(Items(data))
    /\ file # orig => emitted = Len(Dumps(data))

\* C8 amended: parsing is over before any record is stripped and every
\* record is stripped before the file is opened for writing; the file is
\* emptied when it is opened, before the encoder has produced anything, and
\* then holds at each moment exactly the chunks produced so far.
C8_StagesInOrder ==
    /\ pc = "load" => i = 0 /\ data = None /\ ~wopened /\ emitted = 0 /\ file = orig
    /\ pc = "strip" => ~wopened /\ emitted = 0 /\ file = orig /\ i <= Len(Items(data))
    /\ pc \in {"write", "done"} => Iterable(data) /\ i = Len(Items(data))
    /\ emitted > 0 => wopened
    /\ (wopened /\ err = "none") => file = SubSeq(Dumps(data), 1, emitted)
    /\ pc = "done" => emitted = Len(Dumps(data))

C8_Witness ==
    /\ pc = "write"
    /\ err = "none"
    /\ i = 2
    /\ emitted = 3
    /\ Len(Dumps(data)) > 3
    /\ file # orig

\* C9 as stated: a run that fails in the write stage leaves the file holding
\* neither the original content nor the complete stripped document.
C9_Original ==
    (pc = "write" /\ err # "none") =>
        /\ file # orig
        /\ file # Dumps(data)
        /\ IsPrefix(file, Dumps(data))

\* C9 amended: opening the file for writing empties it before any chunk is
\* written, and a run that fails in the write stage after that open leaves a
\* proper prefix of the serialized text (possibly nothing), which is neither
\* the original content nor the complete document, and no step follows.
C9_FailedWriteCorruptsFile ==
    /\ (pc = "write" /\ wopened /\ emitted = 0) => file = <<>>
    /\ (pc = "write" /\ err # "none" /\ wopened) =>
          /\ IsPrefix(file, Dumps(data))
          /\ Len(file) < Len(Dumps(data))
          /\ file # orig
          /\ ~ENABLED Next

C9_Witness ==
    /\ pc = "write"
    /\ err = "OSError"
    /\ wopened
    /\ Len(file) = 2
    /\ IsArrayOfObjects(loaded)

\* C10: a second run on the file a successful first run left never fails,
\* can take its next step in every stage, and once done leaves the file as
\* it found it.
C10_SecondRunSameFile ==
    run = "second" =>
        /\ err = "none"
        /\ pc = "load" => (fault # "unreadable" /\ Loads(file).ok)
        /\ pc = "strip" => ENABLED (StripRecord \/ OpenForWrite)
        /\ pc = "write" => ENABLED (WriteChunk \/ Close)
        /\ pc = "done" => file = orig

C10_Witness ==
    /\ run = "second"
    /\ pc = "done"
    /\ loaded = List(<<Dict(<<Question>>), Dict(<<>>)>>)

====
